---- MODULE Spec2Model ----
(***************************************************************************)
(* The file-backed horoscope API (app.py): file discovery, the mtime-keyed *)
(* load cache, and the daily / weekly / monthly request handlers.          *)
(*                                                                         *)
(* Encoding of values.  ISO dates "YYYY-MM-DD" are the integers YYYYMMDD   *)
(* and year-months "YYYY-MM" the integers YYYYMM: for well-formed values   *)
(* the integer order is the lexicographic order of the strings, which is   *)
(* what sorted() and sort_values() use.  A date-like query parameter that  *)
(* is missing or empty (both falsy in Python) is Absent.  Signs and        *)
(* categories are strings.  A file name <sign>_<yyyy-mm>_<period>*.csv is  *)
(* the record of its three parts.                                          *)
(***************************************************************************)
EXTENDS Integers, Sequences, FiniteSets, TLC

(* ------------------------------ bounds -------------------------------- *)

\* modification times are 1..MaxMtime
MaxMtime == 2
\* a drawn data directory holds at most MaxRows rows in total, and a file
\* written by the environment at most MaxRows rows
MaxRows == 2
\* request threads of the concurrent specification
NumThreads == 2

(* ------------------------------ values -------------------------------- *)

\* request.args.get("date", "") and friends: "" and None are both falsy
Absent == 0
\* a query parameter that was not sent
NoArg == "<no arg>"

Periods == {"daily", "weekly", "monthly"}
Months == {202507, 202508}
Days == {20250802, 20250803}

\* the file names of the data directory
Paths == [sign : {"aries"}, ym : Months, period : Periods]
\* Python's None for a path
NoPath == [sign |-> "", ym |-> 0, period |-> ""]

\* str.lower() on the strings of the model
Lower(s) ==
  CASE s = "Aries" -> "aries"
    [] s = " Aries " -> " aries "
    [] s = "Love" -> "love"
    [] s = "Career" -> "career"
    [] OTHER -> s

\* str.strip() on the strings of the model
Strip(s) ==
  CASE s = " Aries " -> "Aries"
    [] s = " aries " -> "aries"
    [] OTHER -> s

\* request.args.get(name, default)
ArgGet(v, default) == IF v = NoArg THEN default ELSE v

norm_sign(s) == Lower(Strip(s))

norm_cat(s) == Lower(Strip(s))

IsLeap(y) == (y % 4 = 0 /\ y % 100 # 0) \/ y % 400 = 0

DaysIn(y, m) ==
  IF m \in {4, 6, 9, 11} THEN 30
  ELSE IF m = 2 THEN (IF IsLeap(y) THEN 29 ELSE 28)
  ELSE 31

\* datetime.fromisoformat(d) succeeds
IsIsoDate(d) ==
  LET y == d \div 10000
      m == (d \div 100) % 100
      dd == d % 100
  IN y \in 1..9999 /\ m \in 1..12 /\ dd \in 1..DaysIn(y, m)

\* None (Absent) when the parse fails
yyyymm_from_date(d) == IF IsIsoDate(d) THEN d \div 100 ELSE Absent

(* ---------------------------- data frames ----------------------------- *)

\* the subsequence of s at the indices keep, in order
Pick(s, keep) ==
  [k \in 1..Cardinality(keep) |->
     s[CHOOSE i \in keep : Cardinality({j \in keep : j <= i}) = k]]

\* the least index of a non-empty index set
FirstOf(keep) == CHOOSE i \in keep : \A j \in keep : i <= j

\* pd.DataFrame(): no columns, no rows
EmptyDF == [columns |-> {}, rows |-> <<>>]

\* DataFrame.empty
IsEmpty(df) == df.columns = {} \/ Len(df.rows) = 0

Cols(period) ==
  CASE period = "daily" -> {"date", "sign", "category", "forecast", "stars"}
    [] period = "weekly" ->
         {"week_start", "week_end", "sign", "category", "forecast", "stars"}
    [] OTHER -> {"month", "sign", "category", "forecast", "stars"}

DRow(d, s, c) ==
  [date |-> d, sign |-> s, category |-> c, forecast |-> "f", stars |-> 3]

WRow(ws, we, s, c) ==
  [week_start |-> ws, week_end |-> we, sign |-> s, category |-> c,
   forecast |-> "f", stars |-> 3]

MRow(m, s, c) ==
  [month |-> m, sign |-> s, category |-> c, forecast |-> "f", stars |-> 3]

\* the rows a drawn data directory is made of
RowUniverse(period) ==
  CASE period = "daily" ->
         {DRow(20250802, "Aries", "love"), DRow(20250805, "Aries", "love"),
          DRow(20250802, "Aries", "Career"), DRow(20250805, "leo", "love")}
    [] period = "weekly" ->
         {WRow(20250801, 20250807, "Aries", "love"),
          WRow(20250808, 20250814, "Aries", "love"),
          WRow(20250801, 20250807, "Aries", "Career"),
          WRow(20250808, 20250814, "leo", "love")}
    [] OTHER ->
         {MRow(202508, "Aries", "love"), MRow(202507, "Aries", "love"),
          MRow(202508, "Aries", "Career"), MRow(202507, "leo", "love")}

\* pd.read_csv of a file with the period's header and up to n rows
Tables(period, rowset, n) ==
  {[columns |-> Cols(period), rows |-> r] :
     r \in UNION {[1..k -> rowset] : k \in 0..n}}

\* the daily files the environment writes while the server runs: up to
\* MaxRows rows for the sign, in date order, a date at most once
EnvTables ==
  {t \in Tables("daily",
                {DRow(20250802, "Aries", "love"),
                 DRow(20250805, "Aries", "love")}, MaxRows) :
     \A i, j \in DOMAIN t.rows : i < j => t.rows[i].date < t.rows[j].date}

NoFile == [exists |-> FALSE, mtime |-> 0, content |-> EmptyDF]

FileStates(period, rowset) ==
  {NoFile} \cup
  {[exists |-> TRUE, mtime |-> m, content |-> t] :
     m \in 1..MaxMtime, t \in Tables(period, rowset, MaxRows)}

(* ------------------------------- state -------------------------------- *)

VARIABLES
  files,     \* the data directory: path -> [exists, mtime, content]
  dirOrder,  \* the order in which the directory lists its files (glob)
  cache,     \* _cache, in insertion order: <<[path, mtime, df], ...>>
  today,     \* date.today()
  th,        \* per request thread: its position and locals
  last,      \* the locals of the latest request served one at a time
  lastSeen,  \* the file that request resolved to, as it was on disk
  since,     \* what changed since that request: [dir, day]
  cmp        \* the latest request compared with the one before it

vars == <<files, dirOrder, cache, today, th, last, lastSeen, since, cmp>>

(* --------------------------- file discovery --------------------------- *)

\* newest_file_mtime: 0.0 for a file that is gone
newest_file_mtime(p) == IF files[p].exists THEN files[p].mtime ELSE 0

\* glob.glob(<sign>_*_<period>*.csv), in directory order
Glob(period, sign) ==
  Pick(dirOrder, {i \in DOMAIN dirOrder : dirOrder[i].sign = sign
                                          /\ dirOrder[i].period = period})

\* NewestFirst with the sort order reversed (reverse=True forgotten)
NewestFirst_ascending(globbed) ==
  globbed[FirstOf({i \in DOMAIN globbed :
                     \A j \in DOMAIN globbed :
                       newest_file_mtime(globbed[i])
                         <= newest_file_mtime(globbed[j])})]

\* files.sort(key=mtime, reverse=True); files[0]: the sort is stable, so the
\* first file in glob order among those of the greatest mtime
NewestFirst(globbed) ==
  globbed[FirstOf({i \in DOMAIN globbed :
                     \A j \in DOMAIN globbed :
                       newest_file_mtime(globbed[j])
                         <= newest_file_mtime(globbed[i])})]

\* discover_file, after the glob: the file named for the hinted month, else
\* the most recently modified one
discover_select(globbed, sign, hint) ==
  IF globbed = <<>> THEN NoPath
  ELSE IF hint # Absent /\ \E i \in DOMAIN globbed : globbed[i].ym = hint
       THEN globbed[FirstOf({i \in DOMAIN globbed : globbed[i].ym = hint})]
       ELSE NewestFirst(globbed)

(* ------------------------------ the cache ----------------------------- *)

\* CacheKey without the mtime: the path alone
CacheKey_noMtime(path, mtime) == [path |-> path, mtime |-> 0]

\* the key of _cache: (path, mtime)
CacheKey(path, mtime) == [path |-> path, mtime |-> mtime]

KeyOf(e) == CacheKey(e.path, e.mtime)

\* key in _cache
HasKey(c, key) == \E i \in DOMAIN c : KeyOf(c[i]) = key

\* CacheGet that forgets the stored frame
CacheGet_empty(c, key) == EmptyDF

\* _cache[key]
CacheGet(c, key) == c[FirstOf({i \in DOMAIN c : KeyOf(c[i]) = key})].df

\* _cache[key] = df: an existing key keeps its place, a new one goes last
CachePut(c, key, df) ==
  IF HasKey(c, key)
  THEN [i \in DOMAIN c |-> IF KeyOf(c[i]) = key THEN [c[i] EXCEPT !.df = df]
                           ELSE c[i]]
  ELSE Append(c, [path |-> key.path, mtime |-> key.mtime, df |-> df])

\* del _cache[key]
CacheDel(c, key) == Pick(c, {i \in DOMAIN c : KeyOf(c[i]) # key})

\* StaleKeys of a loader that prunes nothing
StaleKeys_none(c, path, mtime) == <<>>

\* the keys of list(_cache.keys()) the prune loop deletes: those of the same
\* path and another mtime
StaleKeys(c, path, mtime) ==
  LET stale == Pick(c, {i \in DOMAIN c : c[i].path = path
                                          /\ c[i].mtime # mtime})
  IN [i \in DOMAIN stale |-> KeyOf(stale[i])]

\* MissingSource without the test for None
MissingSource_noNoneTest(path) == path # NoPath /\ ~files[path].exists

\* not path or not os.path.exists(path)
MissingSource(path) == path = NoPath \/ ~files[path].exists

(* --------------------------- record filters --------------------------- *)

\* df[mask]: the rows at the indices keep
Rows(df, keep) == [df EXCEPT !.rows = Pick(df.rows, keep)]

\* if not df.empty and "sign" in df.columns: df[df["sign"].str.lower() == sign]
SignFilter(df, sign) ==
  IF ~IsEmpty(df) /\ "sign" \in df.columns
  THEN Rows(df, {i \in DOMAIN df.rows : Lower(df.rows[i].sign) = sign})
  ELSE df

\* if category and "category" in df.columns: ... == norm_cat(category)
CategoryFilter(df, category) ==
  IF category # "" /\ category # NoArg /\ "category" \in df.columns
  THEN Rows(df, {i \in DOMAIN df.rows :
                   Lower(df.rows[i].category) = norm_cat(category)})
  ELSE df

SetMin(S) == CHOOSE x \in S : \A y \in S : x <= y

SetMax(S) == CHOOSE x \in S : \A y \in S : y <= x

\* to_json_rows(df, ["category", "forecast", "stars"])
to_json_rows(df) ==
  IF IsEmpty(df) THEN <<>>
  ELSE LET keep == {"category", "forecast", "stars"} \cap df.columns
       IN [i \in DOMAIN df.rows |-> [c \in keep |-> df.rows[i][c]]]

Response(period, sign, d, ws, we, m, df) ==
  [status |-> 200, period |-> period, sign |-> sign, date |-> d,
   week_start |-> ws, week_end |-> we, month |-> m,
   items |-> to_json_rows(df)]

\* an unhandled exception: Flask answers 500
ErrorResponse ==
  [status |-> 500, period |-> "", sign |-> "", date |-> Absent,
   week_start |-> Absent, week_end |-> Absent, month |-> Absent,
   items |-> <<>>]

NoResponse ==
  [status |-> 0, period |-> "", sign |-> "", date |-> Absent,
   week_start |-> Absent, week_end |-> Absent, month |-> Absent,
   items |-> <<>>]

\* df[df["date"] == d]
OnDate(df, d) == Rows(df, {i \in DOMAIN df.rows : df.rows[i].date = d})

\* EarliestDateRows taking the last of the sorted dates instead of the first
EarliestDateRows_last(df) ==
  LET dates == {df.rows[i].date : i \in DOMAIN df.rows}
  IN IF dates = {} THEN df
     ELSE OnDate(df, SetMax(dates))

\* sorted(df["date"].unique())[0], or the except branch (sel = df) when
\* there is no date at all
EarliestDateRows(df) ==
  LET dates == {df.rows[i].date : i \in DOMAIN df.rows}
  IN IF dates = {} THEN df
     ELSE OnDate(df, SetMin(dates))

\* sorted(df["date"].unique())[-1], or the except branch
LatestDateRows(df) ==
  LET dates == {df.rows[i].date : i \in DOMAIN df.rows}
  IN IF dates = {} THEN df
     ELSE OnDate(df, SetMax(dates))

\* "Choose date rows": the rows of the requested date or else of the
\* earliest; with no date requested, the rows of today or else of the latest
DateRows(df, qdate, td) ==
  IF "date" \notin df.columns THEN df
  ELSE IF qdate # Absent
       THEN (IF IsEmpty(OnDate(df, qdate)) THEN EarliestDateRows(df)
             ELSE OnDate(df, qdate))
       ELSE (IF IsEmpty(OnDate(df, td)) THEN LatestDateRows(df)
             ELSE OnDate(df, td))

\* jsonify of api_daily: the date of the first row left, else the request's
DailyResponse(sign, qdate, df) ==
  [resp |-> Response("daily", sign,
                     IF ~IsEmpty(df) /\ "date" \in df.columns
                     THEN df.rows[1].date ELSE qdate,
                     Absent, Absent, Absent, df),
   sel |-> df]

\* api_daily from the sign filter on: [resp, sel]
api_daily(sign, qdate, category, loaded, td) ==
  DailyResponse(sign, qdate,
                CategoryFilter(DateRows(SignFilter(loaded, sign), qdate, td),
                               category))

\* ordered = df.sort_values(["week_start", "week_end"]); its first row
EarliestWeek(df) ==
  LET R == {df.rows[i] : i \in DOMAIN df.rows}
  IN CHOOSE r \in R :
       \A q \in R : r.week_start < q.week_start
                    \/ (r.week_start = q.week_start
                        /\ r.week_end <= q.week_end)

\* df[(df["week_start"] == ws) & (df["week_end"] == we)]
OnWeek(df, ws, we) ==
  Rows(df, {i \in DOMAIN df.rows : df.rows[i].week_start = ws
                                     /\ df.rows[i].week_end = we})

\* jsonify of api_weekly
WeeklyResponse(sign, ws, we, df) ==
  [resp |-> Response("weekly", sign, Absent, ws, we, Absent, df), sel |-> df]

\* the week of row r, then the category filter and the response
WeekOfRow(sign, r, category, df) ==
  WeeklyResponse(sign, r.week_start, r.week_end,
                 CategoryFilter(OnWeek(df, r.week_start, r.week_end),
                                category))

\* api_weekly after the sign filter, on df
WeekRows(sign, ws, we, category, df) ==
  IF {"week_start", "week_end"} \subseteq df.columns
  THEN (IF ws # Absent /\ we # Absent
        THEN WeeklyResponse(sign, ws, we,
                            CategoryFilter(OnWeek(df, ws, we), category))
        ELSE IF ~IsEmpty(df)
             THEN WeekOfRow(sign, EarliestWeek(df), category, df)
             ELSE WeeklyResponse(sign, ws, we, CategoryFilter(df, category)))
  ELSE WeeklyResponse(sign, ws, we, CategoryFilter(df, category))

\* api_weekly from the sign filter on: [resp, sel]
api_weekly(sign, ws, we, category, loaded) ==
  WeekRows(sign, ws, we, category, SignFilter(loaded, sign))

\* jsonify of api_monthly
MonthlyResponse(sign, m, df) ==
  [resp |-> Response("monthly", sign, Absent, Absent, Absent, m, df),
   sel |-> df]

\* api_monthly after the sign filter, on df: the rows of the requested
\* month, or every row under the month of the first
MonthRows(sign, month, category, df) ==
  IF month # Absent /\ "month" \in df.columns
  THEN MonthlyResponse(sign, month,
         CategoryFilter(Rows(df, {i \in DOMAIN df.rows :
                                    df.rows[i].month = month}), category))
  ELSE MonthlyResponse(sign,
         IF "month" \in df.columns /\ ~IsEmpty(df) THEN df.rows[1].month
         ELSE month,
         CategoryFilter(df, category))

\* api_monthly from the sign filter on: [resp, sel]
api_monthly(sign, month, category, loaded) ==
  MonthRows(sign, month, category, SignFilter(loaded, sign))

(* ------------------------------ requests ------------------------------ *)

Request(ep, sign, d, ws, we, m, category) ==
  [ep |-> ep, sign |-> sign, date |-> d, week_start |-> ws, week_end |-> we,
   month |-> m, category |-> category]

NoRequest == Request("", NoArg, Absent, Absent, Absent, Absent, NoArg)

\* the year-month hint each handler hands to discover_file
HintOf(req) ==
  CASE req.ep = "daily" ->
         IF req.date # Absent THEN yyyymm_from_date(req.date) ELSE Absent
    [] req.ep = "weekly" ->
         IF req.month # Absent THEN req.month
         ELSE IF req.week_start # Absent
                 /\ yyyymm_from_date(req.week_start) # Absent
              THEN yyyymm_from_date(req.week_start)
              ELSE IF req.week_end # Absent
                   THEN yyyymm_from_date(req.week_end) ELSE Absent
    [] OTHER -> req.month

\* the handler's result once the file is loaded
Body(req, sign, loaded, td) ==
  CASE req.ep = "daily" -> api_daily(sign, req.date, req.category, loaded, td)
    [] req.ep = "weekly" ->
         api_weekly(sign, req.week_start, req.week_end, req.category, loaded)
    [] OTHER -> api_monthly(sign, req.month, req.category, loaded)

(* ------------------------- one request, by steps ---------------------- *)

IdleLocal ==
  [pc |-> "idle", req |-> NoRequest, sign |-> "", hint |-> Absent,
   globbed |-> <<>>, path |-> NoPath, mtime |-> 0, keys |-> <<>>,
   npruned |-> 0, lost |-> FALSE, df |-> EmptyDF, sel |-> EmptyDF,
   resp |-> NoResponse]

\* the handler's first lines: normalise the sign, derive the hint
StartLocal(req) ==
  [IdleLocal EXCEPT !.pc = "glob", !.req = req,
                    !.sign = norm_sign(ArgGet(req.sign, "aries")),
                    !.hint = HintOf(req)]

Fail(l) == [l EXCEPT !.pc = "done", !.resp = ErrorResponse]

\* the request ends with response b.resp
RespondWith(l, df, b) ==
  [l EXCEPT !.pc = "done", !.df = df, !.resp = b.resp, !.sel = b.sel]

\* the rest of the handler once load_csv_cached has returned df: filters
\* and response, which touch nothing shared
Respond(l, df) == RespondWith(l, df, Body(l.req, l.sign, df, today))

\* a step's outcome: the locals, the cache, and whether load_csv_cached
\* has returned (then l.df is what it returned)
Go(l, c) == [l |-> l, c |-> c, returned |-> FALSE]

Return(l, c, df) == [l |-> [l EXCEPT !.df = df], c |-> c, returned |-> TRUE]

\* one step of discover_file or load_csv_cached for the request with
\* locals l on cache c.  A step is one access to the file system or to
\* _cache, with the local work after it
LoadStep(l, c, key) ==
  CASE l.pc = "glob" ->
         Go([l EXCEPT !.pc = "select", !.globbed = Glob(l.req.ep, l.sign)], c)
    [] l.pc = "select" ->
         Go([l EXCEPT !.pc = "exists",
                      !.path = discover_select(l.globbed, l.sign, l.hint)], c)
    [] l.pc = "exists" ->
         IF MissingSource(l.path) THEN Return(l, c, EmptyDF)
         ELSE Go([l EXCEPT !.pc = "getmtime"], c)
    [] l.pc = "getmtime" ->
         IF l.path = NoPath \/ ~files[l.path].exists THEN Go(Fail(l), c)
         ELSE Go([l EXCEPT !.pc = "lookup", !.mtime = files[l.path].mtime], c)
    [] l.pc = "lookup" ->
         IF HasKey(c, key) THEN Go([l EXCEPT !.pc = "hit"], c)
         ELSE Go([l EXCEPT !.pc = "snapshot"], c)
    [] l.pc = "hit" ->
         IF HasKey(c, key) THEN Return(l, c, CacheGet(c, key))
         ELSE Go(Fail(l), c)
    [] l.pc = "snapshot" ->
         Go([l EXCEPT !.keys = StaleKeys(c, l.path, l.mtime),
                      !.pc = IF StaleKeys(c, l.path, l.mtime) = <<>>
                             THEN "read" ELSE "prune"], c)
    [] l.pc = "prune" ->
         IF HasKey(c, Head(l.keys))
         THEN Go([l EXCEPT !.pc = IF Len(l.keys) = 1 THEN "read" ELSE "prune",
                           !.keys = Tail(l.keys),
                           !.npruned = 1],
                 CacheDel(c, Head(l.keys)))
         ELSE Go(Fail(l), c)
    [] l.pc = "read" ->
         IF ~files[l.path].exists THEN Go(Fail(l), c)
         ELSE Go([l EXCEPT !.pc = "store", !.df = files[l.path].content], c)
    [] OTHER -> Return(l, CachePut(c, key, l.df), l.df)

\* the handler goes on to its response as soon as load_csv_cached returns
Finish(s) ==
  IF s.returned THEN [l |-> Respond(s.l, s.l.df), c |-> s.c]
  ELSE [l |-> s.l, c |-> s.c]

\* one step of the request with locals l on cache c: [l, c]
StepOf(l, c) == Finish(LoadStep(l, c, CacheKey(l.path, l.mtime)))

RECURSIVE RunToDone(_)
\* the whole request from s = [l, c], no other request or file change in
\* between
RunToDone(s) ==
  IF s.l.pc = "done" THEN s ELSE RunToDone(StepOf(s.l, s.c))

(* ------------------------- the request universe ----------------------- *)

SignArgs == {NoArg, " Aries ", "leo"}
CategoryArgs == {NoArg, "Love"}

DailyRequests ==
  {Request("daily", s, d, Absent, Absent, Absent, c) :
     s \in SignArgs, d \in {Absent, 20250805, 20250703, 20250899},
     c \in CategoryArgs}

WeeklyRequests ==
  {Request("weekly", s, Absent, ws, we, m, c) :
     s \in SignArgs, ws \in {Absent, 20250808}, we \in {Absent, 20250814},
     m \in {Absent, 202507}, c \in CategoryArgs}

MonthlyRequests ==
  {Request("monthly", s, Absent, Absent, Absent, m, c) :
     s \in SignArgs, m \in {Absent, 202508, 202513}, c \in CategoryArgs}

Requests == DailyRequests \cup WeeklyRequests \cup MonthlyRequests

(* --------------------- handlers on a drawn directory ------------------ *)

RECURSIVE RowsIn(_, _)
RowsIn(d, ps) ==
  IF ps = {} THEN 0
  ELSE LET p == CHOOSE q \in ps : TRUE
       IN Len(d[p].content.rows) + RowsIn(d, ps \ {p})

\* the listings of a directory: every order of its files
Orders(d) ==
  LET present == {p \in DOMAIN d : d[p].exists}
  IN {o \in [1..Cardinality(present) -> present] :
        \A i, j \in DOMAIN o : i # j => o[i] # o[j]}

Threads == 1..NumThreads

NoCompare ==
  [repeated |-> FALSE, dirSame |-> FALSE, daySame |-> FALSE,
   respSame |-> FALSE, fileChanged |-> FALSE, fromDisk |-> FALSE]

\* a request about to be served on a data directory that holds files of the
\* request's period (files of another period never match its glob pattern),
\* with an empty cache
HandlerInit ==
  /\ \E req \in Requests :
       /\ last = StartLocal(req)
       /\ \E d \in [{p \in Paths : p.period = req.ep}
                     -> FileStates(req.ep, RowUniverse(req.ep))] :
            /\ RowsIn(d, DOMAIN d) <= MaxRows
            /\ files = [p \in Paths |-> IF p.period = req.ep THEN d[p]
                                        ELSE NoFile]
  /\ dirOrder \in Orders(files)
  /\ cache = <<>>
  /\ today = 20250802
  /\ th = [t \in Threads |-> IdleLocal]
  /\ lastSeen = NoFile
  /\ since = [dir |-> FALSE, day |-> FALSE]
  /\ cmp = NoCompare

\* the drawn request served from start to end
ServedAs(r) ==
  /\ last.pc = "glob"
  /\ cache' = r.c
  /\ last' = r.l
  /\ UNCHANGED <<files, dirOrder, today, th, lastSeen, since, cmp>>

Serve == ServedAs(RunToDone([l |-> last, c |-> cache]))

ApiDaily == last.req.ep = "daily" /\ Serve

ApiWeekly == last.req.ep = "weekly" /\ Serve

ApiMonthly == last.req.ep = "monthly" /\ Serve

HandlerNext == ApiDaily \/ ApiWeekly \/ ApiMonthly

HandlerSpec == HandlerInit /\ [][HandlerNext]_vars

(* ------------- requests one at a time, files changing between -------- *)

\* the files the environment writes and deletes while the server runs
EnvPaths == {p \in Paths : p.period = "daily" /\ p.ym = 202508}

SeqRequests ==
  {r \in DailyRequests : r.sign = NoArg /\ r.category = NoArg
                          /\ r.date \in {Absent, 20250805}}

\* the listings of the directory once p is added to it
Inserted(order, p) ==
  {SubSeq(order, 1, i) \o <<p>> \o SubSeq(order, i + 1, Len(order)) :
     i \in 0..Len(order)}

\* a request thread past discovery and still inside load_csv_cached
Loading(l) ==
  l.pc \in {"exists", "getmtime", "lookup", "hit", "snapshot", "prune",
            "read", "store"}

\* the environment creates file p or replaces its content, with any mtime
WriteFile(p) ==
  \E m \in 1..MaxMtime, t \in EnvTables :
    /\ files[p] # [exists |-> TRUE, mtime |-> m, content |-> t]
    /\ files' = [files EXCEPT ![p] = [exists |-> TRUE, mtime |-> m,
                                      content |-> t]]
    /\ dirOrder' \in IF files[p].exists THEN {dirOrder}
                     ELSE Inserted(dirOrder, p)
    /\ since' = [since EXCEPT !.dir = TRUE]
    /\ UNCHANGED <<cache, today, th, last, lastSeen, cmp>>

\* the environment deletes file p
DeleteFile(p) ==
  /\ files[p].exists
  /\ files' = [files EXCEPT ![p] = NoFile]
  /\ dirOrder' = Pick(dirOrder, {i \in DOMAIN dirOrder : dirOrder[i] # p})
  /\ th' = [t \in Threads |->
              IF Loading(th[t]) /\ th[t].path = p
              THEN [th[t] EXCEPT !.lost = TRUE] ELSE th[t]]
  /\ since' = [since EXCEPT !.dir = TRUE]
  /\ UNCHANGED <<cache, today, last, lastSeen, cmp>>

\* midnight passes
Tick ==
  /\ today' \in {d \in Days : d > today}
  /\ since' = [since EXCEPT !.day = TRUE]
  /\ UNCHANGED <<files, dirOrder, cache, th, last, lastSeen, cmp>>

\* the file of path p as it is on disk
OnDisk(p) == IF p = NoPath THEN NoFile ELSE files[p]

\* request req has run to r = [l, c] and is compared with the one before it
Compared(req, r, onDisk) ==
  /\ cache' = r.c
  /\ last' = r.l
  /\ lastSeen' = onDisk
  /\ since' = [dir |-> FALSE, day |-> FALSE]
  /\ cmp' = [repeated |-> last.pc = "done" /\ last.req = req,
             dirSame |-> ~since.dir,
             daySame |-> ~since.day,
             respSame |-> r.l.resp = last.resp,
             fileChanged |-> /\ onDisk.exists /\ lastSeen.exists
                             /\ r.l.path = last.path
                             /\ onDisk.mtime # lastSeen.mtime
                             /\ onDisk.content # lastSeen.content,
             fromDisk |-> onDisk.exists /\ r.l.df = onDisk.content]
  /\ UNCHANGED <<files, dirOrder, today, th>>

\* request req has run to r
Ran(req, r) == Compared(req, r, OnDisk(r.l.path))

\* a request served from start to end
SeqRequest ==
  \E req \in SeqRequests :
    Ran(req, RunToDone([l |-> StartLocal(req), c |-> cache]))

\* the server right after construction, on an empty data directory
Init ==
  /\ files = [p \in Paths |-> NoFile]
  /\ dirOrder = <<>>
  /\ cache = <<>>
  /\ today = 20250802
  /\ th = [t \in Threads |-> IdleLocal]
  /\ last = IdleLocal
  /\ lastSeen = NoFile
  /\ since = [dir |-> FALSE, day |-> FALSE]
  /\ cmp = NoCompare

SeqNext ==
  \/ SeqRequest
  \/ \E p \in EnvPaths : WriteFile(p)
  \/ \E p \in EnvPaths : DeleteFile(p)
  \/ Tick

SeqSpec == Init /\ [][SeqNext]_vars

(* ------------------------- concurrent requests ------------------------ *)

ConcRequests ==
  {r \in DailyRequests : r.sign = NoArg /\ r.category = NoArg
                          /\ r.date = Absent}

\* thread t takes a request
Start(t) ==
  /\ th[t].pc \in {"idle", "done"}
  /\ \E req \in ConcRequests : th' = [th EXCEPT ![t] = StartLocal(req)]
  /\ UNCHANGED <<files, dirOrder, cache, today, last, lastSeen, since, cmp>>

\* thread t has taken a step to r = [l, c]
Stepped(t, r) ==
  /\ th' = [th EXCEPT ![t] = r.l]
  /\ cache' = r.c
  /\ UNCHANGED <<files, dirOrder, today, last, lastSeen, since, cmp>>

\* thread t takes its next step
Step(t) ==
  /\ th[t].pc \notin {"idle", "done"}
  /\ Stepped(t, StepOf(th[t], cache))

Next ==
  \/ \E t \in Threads : Start(t)
  \/ \E t \in Threads : Step(t)
  \/ \E p \in EnvPaths : WriteFile(p)
  \/ \E p \in EnvPaths : DeleteFile(p)

Spec == Init /\ [][Next]_vars

(* ------------------ claims about the request handlers ---------------- *)

\* the drawn request has been served
Served(ep) == last.pc = "done" /\ last.req.ep = ep /\ last.resp.status = 200

\* the files of the data directory that match <sign>_*_<period>*
Matching(period, sign) ==
  {p \in Paths : files[p].exists /\ p.sign = sign /\ p.period = period}

\* the rows of file p that are for the sign
SignRows(p, sign) ==
  Pick(files[p].content.rows,
       {i \in DOMAIN files[p].content.rows :
          Lower(files[p].content.rows[i].sign) = sign})

RowSet(rows) == {rows[i] : i \in DOMAIN rows}

\* the months on record for the sign across the data directory
MonthsOnRecord(sign) ==
  UNION {{r.month : r \in RowSet(SignRows(p, sign))} :
           p \in Matching("monthly", sign)}

\* every monthly file for the sign follows the naming convention: it has
\* rows, all for the sign and all of the month in its name
MonthlyFilesWellFormed(sign) ==
  \A p \in Matching("monthly", sign) :
    /\ files[p].content.rows # <<>>
    /\ \A r \in RowSet(files[p].content.rows) :
         Lower(r.sign) = sign /\ r.month = p.ym

\* C5 as claimed: a monthly request with no month parameter answers with the
\* newest month on record for the sign, whatever the files' mtimes (here
\* even with every file holding exactly the month it is named for, and no
\* two files of the same mtime)
C5_NewestMonthWhateverMtime ==
  (Served("monthly") /\ last.req.month = Absent
     /\ MonthsOnRecord(last.sign) # {} /\ MonthlyFilesWellFormed(last.sign)
     /\ \A p, q \in Matching("monthly", last.sign) :
          p # q => files[p].mtime # files[q].mtime)
  => last.resp.month = SetMax(MonthsOnRecord(last.sign))

\* C5 as amended: a monthly request with no month parameter answers with the
\* month of the first row for the sign in a matching file of the greatest
\* mtime, and with an empty month when that file has no row for the sign
C5_MonthOfMostRecentlyModifiedFile ==
  (Served("monthly") /\ last.req.month = Absent
     /\ Matching("monthly", last.sign) # {})
  => \E p \in Matching("monthly", last.sign) :
       /\ \A q \in Matching("monthly", last.sign) :
            files[q].mtime <= files[p].mtime
       /\ last.resp.month = IF SignRows(p, last.sign) = <<>> THEN Absent
                            ELSE SignRows(p, last.sign)[1].month

\* C5 witness: two monthly files for the sign, the older month modified
\* last, and the response names the older month
C5_Witness ==
  /\ Served("monthly") /\ last.req.month = Absent
  /\ \E p, q \in Matching("monthly", last.sign) :
       /\ files[q].mtime < files[p].mtime
       /\ SignRows(p, last.sign) # <<>> /\ SignRows(q, last.sign) # <<>>
       /\ SignRows(p, last.sign)[1].month < SignRows(q, last.sign)[1].month
       /\ last.resp.month = SignRows(p, last.sign)[1].month

\* the dates of the selected file's rows for the sign
DatesOnFile == {r.date : r \in RowSet(SignRows(last.path, last.sign))}

\* the date the daily selection rule names: the requested date when the
\* file has it, else the earliest; with no date requested, today when the
\* file has it, else the latest
ChosenDate ==
  IF last.req.date # Absent
  THEN (IF last.req.date \in DatesOnFile THEN last.req.date
        ELSE SetMin(DatesOnFile))
  ELSE (IF today \in DatesOnFile THEN today ELSE SetMax(DatesOnFile))

DailyOnFile ==
  Served("daily") /\ last.path # NoPath /\ DatesOnFile # {}

C7_WeekStartHonoured ==
  (Served("weekly") /\ last.req.week_start # Absent)
  => /\ last.resp.week_start = last.req.week_start
     /\ \A r \in RowSet(last.sel.rows) :
          r.week_start = last.req.week_start

\* C8: a request for a sign and period that no file matches is answered
\* with status 200 and no items, whatever its other parameters
C8_NoSourceIsEmptySuccess ==
  (last.pc = "done" /\ Matching(last.req.ep, last.sign) = {})
  => last.resp.status = 200 /\ last.resp.items = <<>>

\* C8 witness: a daily request with a malformed date and a category for a
\* sign without files, in a directory that holds files of other signs
C8_Witness ==
  /\ last.pc = "done" /\ last.req.ep = "daily"
  /\ Matching("daily", last.sign) = {}
  /\ \E p \in Paths : files[p].exists /\ p.period = "daily"
  /\ last.req.date = 20250899 /\ last.req.category = "Love"
  /\ last.resp.status = 200 /\ last.resp.items = <<>>

\* C10 as claimed: every row returned by a monthly response is of the month
\* the response names
C10_ItemsOfResponseMonth ==
  (Served("monthly") /\ last.resp.items # <<>>)
  => \A r \in RowSet(last.sel.rows) : r.month = last.resp.month

(* ------------------------ claims about the cache ---------------------- *)

\* C1: with requests served one at a time and files changing in between,
\* the cache never holds two entries of the same path
C1_OneEntryPerPath ==
  \A i, j \in DOMAIN cache : cache[i].path = cache[j].path => i = j

\* C1 witness: the latest request found the file under a new mtime, deleted
\* the entry of the old one and left exactly one entry
C1_Witness ==
  /\ last.pc = "done" /\ last.npruned = 1
  /\ Len(cache) = 1 /\ cache[1].mtime = last.mtime

\* C2: when the file a query resolves to has another mtime and another
\* content than at the previous request for the same query, the request is
\* served from the content now on disk
C2_ChangedFileIsReread ==
  (cmp.repeated /\ cmp.fileChanged)
  => /\ cmp.fromDisk
     /\ last.df = lastSeen.content

\* C2 witness: a repeated query after such a change, answered with items
\* that differ from the previous answer
C2_Witness ==
  /\ cmp.repeated /\ cmp.fileChanged /\ cmp.fromDisk /\ ~cmp.respSame
  /\ last.npruned = 1 /\ last.resp.items # <<>>

\* C9 as claimed: a query repeated with no change to the data directory in
\* between gets the same response
C9_RepeatIsIdentical ==
  (cmp.repeated /\ cmp.dirSame) => cmp.respSame

\* C9 as amended: a query repeated with no change to the data directory in
\* between, and on the same day, gets the same response
C9_RepeatSameDayIsIdentical ==
  (cmp.repeated /\ cmp.dirSame /\ cmp.daySame) => cmp.respSame

\* C9 witness: a daily request with no date, first served from the file and
\* then, repeated, from the cache, with the same non-empty response
C9_Witness ==
  /\ cmp.repeated /\ cmp.dirSame /\ cmp.daySame /\ cmp.respSame
  /\ last.req.date = Absent /\ last.resp.items # <<>>
  /\ HasKey(cache, CacheKey(last.path, last.mtime))

(* --------------------- claims about concurrent loads ------------------ *)

\* C3 as claimed: a request whose file was deleted after discovery and
\* before load_csv_cached returned is answered with status 200 and no items
C3_DeletedFileIsEmptySuccess ==
  \A t \in Threads :
    (th[t].pc = "done" /\ th[t].lost)
    => th[t].resp.status = 200 /\ th[t].resp.items = <<>>

\* C4 as claimed: once concurrent requests for the same path have all
\* finished (no file having been deleted under them), none has failed and
\* the cache holds at most one entry of the path
C4_ConcurrentLoadsBenign ==
  (\A t \in Threads : th[t].pc = "done" /\ ~th[t].lost
                        /\ th[t].path # NoPath)
  => /\ \A t \in Threads : th[t].resp.status = 200
     /\ \A i, j \in DOMAIN cache : cache[i].path = cache[j].path => i = j

====
